---- MODULE Spec2Model ----
\* Verification model of the embedding cache of the py-genai service
\* (src/services/py-genai/src/services/embedding_service.py): the article
\* table of the vector store, the embedding provider and the two cache
\* operations EmbeddingService.embed_batch_with_cache (GetOrCompute) and
\* EmbeddingService.get_embeddings_by_ids (GetByIds), run by several requests
\* that share the store.  A request is split at its suspension points: the
\* SELECT, the provider call and the upsert are separate steps, so requests
\* served by different worker processes interleave between them.
EXTENDS Integers, Sequences, FiniteSets, TLC

\* ---------------------------------------------------------------- bounds
NumCalls == 2     \* requests that run against the shared store
NumIds == 2       \* distinct external ids
NumTexts == 2     \* distinct document texts
MaxLen == 2       \* longest ids/texts list of one request

Calls == 1..NumCalls
Ids == 1..NumIds
Texts == 1..NumTexts

\* ---------------------------------------------------------------- values
\* A vector is a sequence of numbers.  Python's None is a value that is no
\* list the provider returns (provider components are >= 1) and is not [].
None == <<0>>
EmptyVec == <<>>

\* embeddings_client.embed_documents on one text: the provider's vector is a
\* function of the text alone.
Embed(t) == <<t>>

\* An absent entry of a result list: None or [].
IsAbsent(v) == v = None \/ v = EmptyVec

VARIABLES
  store,            \* table article: set of rows <<external_id, embedding>>
  last_upsert,      \* per id: the vector of the last upsert statement that ran
  pc,               \* position of each request
  texts, ids,       \* arguments of each request
  vectors,          \* embed_batch_with_cache: result list
  cached_map,       \* dict external_id -> embedding built from the SELECT
  cached_count,
  new_texts,
  new_ids,          \* list of (position, external_id)
  new_embeddings,
  provider_calls,   \* per request: the batches handed to embed_documents
  upsert_calls,     \* per request: number of execute_batch invocations
  io_error,         \* per request: the cache I/O that raised ("read", "upsert")
  seen,             \* per request: the requests that had returned when it started
  embeddings,       \* get_embeddings_by_ids: result list
  found_count,
  status,           \* per request: HTTP status of a request the router refused
  endpoint,         \* stateless handlers: the handler that answered last
  request,          \* its request
  upstream,         \* the calls it made to a fetcher or to the LLM, in order
  response          \* its answer

vars == <<store, last_upsert, pc, texts, ids, vectors, cached_map, cached_count,
          new_texts, new_ids, new_embeddings, provider_calls, upsert_calls,
          io_error, seen, embeddings, found_count, status>>

\* The variables of the stateless handlers (fetcher, query builder,
\* classifier, topic discovery), which share nothing with the store.
hvars == <<endpoint, request, upstream, response>>

all_vars == <<vars, hvars>>

\* ---------------------------------------------------------------- helpers
Min(a, b) == IF a < b THEN a ELSE b

SetOf(s) == {s[k] : k \in 1..Len(s)}

\* ---------------------------------------------------------------- store
\* A SELECT that finds no row.
SelectNoRows(rows, wanted) == {}

\* SELECT external_id, embedding FROM article WHERE external_id = ANY(ids)
\* AND embedding IS NOT NULL (the driver reads NULL as None).
SelectRows(rows, wanted) ==
  {r \in rows : r[1] \in wanted /\ r[2] # None}

\* {row[0]: list(row[1]) for row in rows if row[1] is not None}; list() copies
\* the components of the row's vector unchanged.
RowsToMap(rows) ==
  LET keep == {r \in rows : r[2] # None}
  IN [i \in {r[1] : r \in keep} |-> (CHOOSE r \in keep : r[1] = i)[2]]

\* The try/except around the SELECT re-raising instead of degrading.
ReadCachedReraise(rows, id_list, read_ok) ==
  IF read_ok
  THEN [escapes |-> FALSE, cached_map |-> RowsToMap(SelectRows(rows, SetOf(id_list)))]
  ELSE [escapes |-> TRUE, cached_map |-> <<>>]

\* Lines 63-75: the SELECT inside try/except; on an exception cached_map = {}.
ReadCached(rows, id_list, read_ok) ==
  IF read_ok
  THEN [escapes |-> FALSE, cached_map |-> RowsToMap(SelectRows(rows, SetOf(id_list)))]
  ELSE [escapes |-> FALSE, cached_map |-> <<>>]

\* A plain INSERT that leaves the existing row of the key in place.
InsertRowNoConflict(rows, ext_id, emb) == rows \cup {<<ext_id, emb>>}

\* INSERT ... ON CONFLICT (external_id) DO NOTHING.
UpsertRowDoNothing(rows, ext_id, emb) ==
  IF \E r \in rows : r[1] = ext_id THEN rows ELSE rows \cup {<<ext_id, emb>>}

\* An upsert that empties the table before it inserts the row.
UpsertRowTruncating(rows, ext_id, emb) == {<<ext_id, emb>>}

\* INSERT ... ON CONFLICT (external_id) DO UPDATE SET embedding = EXCLUDED.embedding
UpsertRow(rows, ext_id, emb) ==
  {r \in rows : r[1] # ext_id} \cup {<<ext_id, emb>>}

\* execute_batch: the statements of the batch in order.
RECURSIVE UpsertAll(_, _)
UpsertAll(rows, pairs) ==
  IF pairs = <<>> THEN rows
  ELSE UpsertAll(UpsertRow(rows, Head(pairs)[1], Head(pairs)[2]), Tail(pairs))

\* The embedding column is VECTOR(D): a value without components is no
\* value of the column and the statement raises.
VectorColumnAccepts(emb) == emb # EmptyVec /\ emb # None

\* [(ext_id, emb) for (_, ext_id), emb in zip(new_ids, new_embeddings)]
UpsertPairs(nids, nembs) ==
  [k \in 1..Min(Len(nids), Len(nembs)) |-> <<nids[k][2], nembs[k]>>]

\* Lines 101-118 with a batch that stores whatever value it is handed.
UpsertBatchAnyValue(rows, pairs, db_ok) ==
  IF db_ok
  THEN [failed |-> FALSE, rows |-> UpsertAll(rows, pairs)]
  ELSE [failed |-> TRUE, rows |-> rows]

\* Lines 101-118: execute_batch inside try/except; an exception is logged.
\* The batch is one statement string under autocommit: it runs whole or not at all.
UpsertBatch(rows, pairs, db_ok) ==
  IF db_ok /\ \A k \in 1..Len(pairs) : VectorColumnAccepts(pairs[k][2])
  THEN [failed |-> FALSE, rows |-> UpsertAll(rows, pairs)]
  ELSE [failed |-> TRUE, rows |-> rows]

\* The table before the first embedding request: an article row may exist
\* for an id, its embedding still NULL; every vector is written by a request.
InitialStores == SUBSET (Ids \X {None})

\* ---------------------------------------------------------------- embed_batch_with_cache
\* A partition that sends every position to the provider.
MissingOfAll(id_list, cmap) ==
  [k \in 1..Len(id_list) |-> <<k, id_list[k]>>]

\* Lines 82-90: the (position, external_id) of the entries whose id is not a
\* key of cached_map, in input order.
MissingOf(id_list, cmap) ==
  SelectSeq([k \in 1..Len(id_list) |-> <<k, id_list[k]>>],
            LAMBDA p : p[2] \notin DOMAIN cmap)

\* A loop that looks every position up under the first id.
PlaceCachedFirst(id_list, cmap) ==
  [k \in 1..Len(id_list) |->
     IF id_list[1] \in DOMAIN cmap THEN cmap[id_list[1]] ELSE None]

\* Lines 58, 85-87: the result list after the partition loop.
PlaceCached(id_list, cmap) ==
  [k \in 1..Len(id_list) |->
     IF id_list[k] \in DOMAIN cmap THEN cmap[id_list[k]] ELSE None]

\* A splice that fills the result from the front instead of by position.
PlaceNewShifted(vecs, nids, nembs) ==
  [k \in 1..Len(vecs) |->
     IF k <= Min(Len(nids), Len(nembs)) THEN nembs[k] ELSE vecs[k]]

\* Lines 121-122: for (idx, _), embedding in zip(new_ids, new_embeddings):
\* vectors[idx] = embedding
PlaceNew(vecs, nids, nembs) ==
  [k \in 1..Len(vecs) |->
     LET hits == {j \in 1..Min(Len(nids), Len(nembs)) : nids[j][1] = k}
     IN IF hits = {} THEN vecs[k]
        ELSE nembs[CHOOSE j \in hits : \A j2 \in hits : j2 <= j]]

\* Lines 48-54, _embed_batch: the provider's answer (its first `returned`
\* vectors), or [[] for _ in texts] on an exception.
EmbedBatch(batch, raised, returned) ==
  IF raised THEN [k \in 1..Len(batch) |-> EmptyVec]
  ELSE [k \in 1..returned |-> Embed(batch[k])]

\* ---------------------------------------------------------------- get_embeddings_by_ids
\* A loop that skips the misses instead of appending [].
GetByIdsSkipMisses(rows, id_list, read_ok) ==
  LET cmap == RowsToMap(SelectRows(rows, SetOf(id_list)))
      hit == SelectSeq(id_list, LAMBDA i : i \in DOMAIN cmap)
  IN IF read_ok
     THEN [embeddings |-> [k \in 1..Len(hit) |-> cmap[hit[k]]],
           found_count |-> Len(hit)]
     ELSE [embeddings |-> [k \in 1..Len(id_list) |-> EmptyVec], found_count |-> 0]

\* Lines 126-151: the SELECT and the loop inside one try/except.
GetByIds(rows, id_list, read_ok) ==
  LET cmap == RowsToMap(SelectRows(rows, SetOf(id_list)))
  IN IF read_ok
     THEN [embeddings |-> [k \in 1..Len(id_list) |->
                             IF id_list[k] \in DOMAIN cmap THEN cmap[id_list[k]]
                             ELSE EmptyVec],
           found_count |-> Cardinality({k \in 1..Len(id_list) :
                                          id_list[k] \in DOMAIN cmap})]
     ELSE [embeddings |-> [k \in 1..Len(id_list) |-> EmptyVec], found_count |-> 0]

\* generate_embeddings (POST /embeddings), lines 17-20, with the check moved
\* inside the try block, where the handler's except turns it into a 500.
ValidateLengthsInsideTry(text_list, id_list) ==
  IF Len(text_list) # Len(id_list) THEN 500 ELSE 0

\* generate_embeddings (POST /embeddings), lines 17-20: the status the router
\* raises before it calls the service; 0 when the request goes on.
ValidateLengths(text_list, id_list) ==
  IF Len(text_list) # Len(id_list) THEN 400 ELSE 0

\* No stateless handler has answered yet.
HandlersIdle ==
  /\ endpoint = "none"
  /\ request = [source |-> "none"]
  /\ upstream = <<>>
  /\ response = [status |-> 0]

\* ---------------------------------------------------------------- Init
Init ==
  /\ store \in InitialStores
  /\ last_upsert = [i \in Ids |-> None]
  /\ pc = [c \in Calls |-> "idle"]
  /\ texts = [c \in Calls |-> <<>>]
  /\ ids = [c \in Calls |-> <<>>]
  /\ vectors = [c \in Calls |-> <<>>]
  /\ cached_map = [c \in Calls |-> <<>>]
  /\ cached_count = [c \in Calls |-> 0]
  /\ new_texts = [c \in Calls |-> <<>>]
  /\ new_ids = [c \in Calls |-> <<>>]
  /\ new_embeddings = [c \in Calls |-> <<>>]
  /\ provider_calls = [c \in Calls |-> <<>>]
  /\ upsert_calls = [c \in Calls |-> 0]
  /\ io_error = [c \in Calls |-> {}]
  /\ seen = [c \in Calls |-> {}]
  /\ embeddings = [c \in Calls |-> <<>>]
  /\ found_count = [c \in Calls |-> 0]
  /\ status = [c \in Calls |-> 0]
  /\ HandlersIdle

\* The requests that have returned to their caller.
Returned == {c \in Calls : pc[c] \in {"done", "got", "raised"}}

\* Requests are numbered in the order in which they arrive.
Arrived(c) == \A d \in Calls : d < c => pc[d] # "idle"

\* ---------------------------------------------------------------- actions
\* embed_batch_with_cache, lines 58-90: the SELECT and the partition loop;
\* line 124 when nothing is missing.
FetchCached(c) ==
  /\ pc[c] = "idle"
  /\ Arrived(c)
  /\ \E n \in 0..MaxLen : \E id_list \in [1..n -> Ids], text_list \in [1..n -> Texts] :
     \E read_ok \in BOOLEAN :
       LET rd == ReadCached(store, id_list, read_ok)
           cmap == rd.cached_map
           miss == MissingOf(id_list, cmap)
       IN /\ ids' = [ids EXCEPT ![c] = id_list]
          /\ texts' = [texts EXCEPT ![c] = text_list]
          /\ cached_map' = [cached_map EXCEPT ![c] = cmap]
          /\ cached_count' = [cached_count EXCEPT ![c] = Cardinality(DOMAIN cmap)]
          /\ vectors' = [vectors EXCEPT ![c] = PlaceCached(id_list, cmap)]
          /\ new_ids' = [new_ids EXCEPT ![c] = miss]
          /\ new_texts' = [new_texts EXCEPT ![c] =
                             [k \in 1..Len(miss) |-> text_list[miss[k][1]]]]
          /\ io_error' = [io_error EXCEPT ![c] = IF read_ok THEN {} ELSE {"read"}]
          /\ pc' = [pc EXCEPT ![c] = IF rd.escapes THEN "raised"
                                     ELSE IF Len(miss) > 0 THEN "embed" ELSE "done"]
  /\ seen' = [seen EXCEPT ![c] = Returned]
  /\ UNCHANGED <<store, last_upsert, new_embeddings, provider_calls, upsert_calls,
                 embeddings, found_count, status>>
  /\ UNCHANGED hvars

\* embed_batch_with_cache, lines 95-96: one call of _embed_batch.
GenerateNew(c) ==
  /\ pc[c] = "embed"
  /\ \E raised \in BOOLEAN, returned \in 0..Len(new_texts[c]) :
       new_embeddings' = [new_embeddings EXCEPT ![c] =
                            EmbedBatch(new_texts[c], raised, returned)]
  /\ provider_calls' = [provider_calls EXCEPT ![c] = Append(@, new_texts[c])]
  /\ pc' = [pc EXCEPT ![c] = "upsert"]
  /\ UNCHANGED <<store, last_upsert, texts, ids, vectors, cached_map, cached_count,
                 new_texts, new_ids, upsert_calls, io_error, seen, embeddings,
                 found_count, status>>
  /\ UNCHANGED hvars

\* embed_batch_with_cache, lines 101-124: the batched upsert, the splice of
\* the new vectors and the return.
UpsertNew(c) ==
  /\ pc[c] = "upsert"
  /\ \E db_ok \in BOOLEAN :
       LET pairs == UpsertPairs(new_ids[c], new_embeddings[c])
           up == UpsertBatch(store, pairs, db_ok)
       IN /\ store' = up.rows
          /\ last_upsert' =
               IF up.failed THEN last_upsert
               ELSE [i \in Ids |->
                       LET js == {j \in 1..Len(pairs) : pairs[j][1] = i}
                       IN IF js = {} THEN last_upsert[i]
                          ELSE pairs[CHOOSE j \in js : \A j2 \in js : j2 <= j][2]]
          /\ io_error' = [io_error EXCEPT ![c] =
                            IF up.failed THEN @ \cup {"upsert"} ELSE @]
  /\ upsert_calls' = [upsert_calls EXCEPT ![c] = @ + 1]
  /\ vectors' = [vectors EXCEPT ![c] = PlaceNew(@, new_ids[c], new_embeddings[c])]
  /\ pc' = [pc EXCEPT ![c] = "done"]
  /\ UNCHANGED <<texts, ids, cached_map, cached_count, new_texts, new_ids,
                 new_embeddings, provider_calls, seen, embeddings, found_count,
                 status>>
  /\ UNCHANGED hvars

\* get_embeddings_by_ids, lines 126-151.
GetEmbeddingsByIds(c) ==
  /\ pc[c] = "idle"
  /\ Arrived(c)
  /\ \E n \in 0..MaxLen : \E id_list \in [1..n -> Ids] : \E read_ok \in BOOLEAN :
       LET res == GetByIds(store, id_list, read_ok)
       IN /\ ids' = [ids EXCEPT ![c] = id_list]
          /\ embeddings' = [embeddings EXCEPT ![c] = res.embeddings]
          /\ found_count' = [found_count EXCEPT ![c] = res.found_count]
          /\ io_error' = [io_error EXCEPT ![c] = IF read_ok THEN {} ELSE {"read"}]
  /\ seen' = [seen EXCEPT ![c] = Returned]
  /\ pc' = [pc EXCEPT ![c] = "got"]
  /\ UNCHANGED <<store, last_upsert, texts, vectors, cached_map, cached_count,
                 new_texts, new_ids, new_embeddings, provider_calls, upsert_calls,
                 status>>
  /\ UNCHANGED hvars

\* generate_embeddings (POST /embeddings), lines 17-20: a request whose texts
\* and ids differ in length is answered before the try block is entered; a
\* request of equal lengths goes on to embed_batch_with_cache (FetchCached).
RejectMismatch(c) ==
  /\ pc[c] = "idle"
  /\ Arrived(c)
  /\ \E nt \in 0..MaxLen, ni \in 0..MaxLen :
     \E text_list \in [1..nt -> Texts], id_list \in [1..ni -> Ids] :
       /\ ValidateLengths(text_list, id_list) # 0
       /\ texts' = [texts EXCEPT ![c] = text_list]
       /\ ids' = [ids EXCEPT ![c] = id_list]
       /\ status' = [status EXCEPT ![c] = ValidateLengths(text_list, id_list)]
  /\ pc' = [pc EXCEPT ![c] = "rejected"]
  /\ UNCHANGED <<store, last_upsert, vectors, cached_map, cached_count, new_texts,
                 new_ids, new_embeddings, provider_calls, upsert_calls, io_error,
                 seen, embeddings, found_count>>
  /\ UNCHANGED hvars

Next ==
  \E c \in Calls :
    \/ RejectMismatch(c)
    \/ FetchCached(c)
    \/ GenerateNew(c)
    \/ UpsertNew(c)
    \/ GetEmbeddingsByIds(c)

Spec == Init /\ [][Next]_vars

TypeOK ==
  /\ \A r \in store : r[1] \in Ids
  /\ pc \in [Calls -> {"idle", "embed", "upsert", "done", "got", "raised",
                       "rejected"}]

\* ------------------------------------------------------- stateless handlers
\* ---------------------------------------------------------------- bounds
MaxArticles == 2  \* most articles one upstream fetch returns
MaxWords == 6     \* longest search_terms / query text, in tokens

\* ---------------------------------------------------------------- strings
\* A string is the sequence of its tokens (operators, words, blanks); Python's
\* None is a value that is no string.
NoStr == <<"<None>">>

\* Python truthiness of an optional string.
Truthy(s) == s # NoStr /\ s # <<>>

\* tok in s
Contains(s, tok) == \E k \in 1..Len(s) : s[k] = tok

\* s.split(tok)[-1]: what follows the last occurrence of tok (all of s when
\* tok does not occur).
AfterLast(s, tok) ==
  LET ks == {k \in 1..Len(s) : s[k] = tok}
  IN IF ks = {} THEN s
     ELSE SubSeq(s, (CHOOSE k \in ks : \A j \in ks : j <= k) + 1, Len(s))

\* ---------------------------------------------------------------- py-fetcher
\* fetch_articles, line 29: request.limit or 50 (limit 0 stands for no limit).
DefaultLimit == 50

MaxResults(req) == IF req.limit = 0 THEN DefaultLimit ELSE req.limit

\* What one call of a fetcher can do: raise, or return n articles.
Outcomes(max_results) ==
  {[raised |-> TRUE, n |-> 0]} \cup
  {[raised |-> FALSE, n |-> k] : k \in 0..Min(MaxArticles, max_results)}

\* The articles a fetcher returns for an expression, in rank order:
\* ArxivFetcher tags every article "arxiv", RedditFetcher "reddit".
Articles(src, q, n) == [k \in 1..n |-> [source |-> src, query |-> q, rank |-> k]]

Call(tier, q, max_results, o) ==
  [tier |-> tier, query |-> q, max_results |-> max_results,
   raised |-> o.raised, n |-> o.n]

\* fetch_articles, lines 36-40: the expression of the first fetch.
SearchQuery(req) ==
  IF Truthy(req.category) /\
     (Contains(req.category, "cat:") \/ Contains(req.category, "all:"))
  THEN req.category
  ELSE IF Truthy(req.category) THEN <<"cat:">> \o req.category ELSE req.query

\* fetch_articles, line 52: the category carries both a phrase and cat:.
IsAdvancedForm(cat) ==
  Contains(cat, "cat:") /\ (Contains(cat, "all:") \/ Contains(cat, "AND"))

\* fetch_articles, lines 54-55.
FallbackQuery(cat) == <<"cat:">> \o AfterLast(cat, "cat:")

\* fetch_articles, lines 41-63 with the free-text retry made whatever the
\* category-only retry returned.
FetchArxivFreeTextAlways(req, o1, o2, o3) ==
  LET mr == MaxResults(req)
      c1 == <<Call(1, SearchQuery(req), mr, o1)>>
      try2 == ~o1.raised /\ o1.n = 0 /\ Truthy(req.category)
              /\ IsAdvancedForm(req.category)
      c2 == IF try2 THEN c1 \o <<Call(2, FallbackQuery(req.category), mr, o2)>>
            ELSE c1
      r2 == o1.raised \/ (try2 /\ o2.raised)
      try3 == ~r2 /\ o1.n = 0 /\ Truthy(req.query)
      c3 == IF try3 THEN c2 \o <<Call(3, req.query, mr, o3)>> ELSE c2
      r3 == r2 \/ (try3 /\ o3.raised)
      last == c3[Len(c3)]
  IN [calls |-> c3, raised |-> r3,
      articles |-> IF r3 THEN <<>> ELSE Articles("arxiv", last.query, last.n)]

\* fetch_articles, lines 41-63: the first fetch, the category-only retry and
\* the free-text retry; `articles` is what the last fetch made returned.
FetchArxiv(req, o1, o2, o3) ==
  LET mr == MaxResults(req)
      c1 == <<Call(1, SearchQuery(req), mr, o1)>>
      try2 == ~o1.raised /\ o1.n = 0 /\ Truthy(req.category)
              /\ IsAdvancedForm(req.category)
      c2 == IF try2 THEN c1 \o <<Call(2, FallbackQuery(req.category), mr, o2)>>
            ELSE c1
      n2 == IF try2 THEN o2.n ELSE o1.n
      r2 == o1.raised \/ (try2 /\ o2.raised)
      try3 == ~r2 /\ n2 = 0 /\ Truthy(req.query)
      c3 == IF try3 THEN c2 \o <<Call(3, req.query, mr, o3)>> ELSE c2
      r3 == r2 \/ (try3 /\ o3.raised)
      last == c3[Len(c3)]
  IN [calls |-> c3, raised |-> r3,
      articles |-> IF r3 THEN <<>> ELSE Articles("arxiv", last.query, last.n)]

\* fetch_articles, lines 67-70: one fetch of the subreddit.
FetchReddit(req, o1) ==
  LET subreddit == IF Truthy(req.category) THEN req.category ELSE req.query
  IN [calls |-> <<Call(1, subreddit, MaxResults(req), o1)>>, raised |-> o1.raised,
      articles |-> IF o1.raised THEN <<>> ELSE Articles("reddit", subreddit, o1.n)]

\* fetch_articles, lines 71-72: the else branch raises HTTPException(400)
\* inside the try block.
FetchUnsupported(req) == [calls |-> <<>>, raised |-> TRUE, articles |-> <<>>]

\* `except Exception as e: raise HTTPException(status_code=500, ...)` around a
\* handler body: an HTTPException raised in the body is an Exception, so the
\* status it carried is replaced (fetch_articles lines 81-83, build_source_query
\* lines 41-43).
HandlerStatus(raised) == IF raised THEN 500 ELSE 200

\* The requests fetch_articles is given.
FetchCategories ==
  {NoStr, <<>>, <<"cs.CV">>, <<"cat:", "cs.CV">>,
   <<"all:", "\"", "xyz", "\"", "+", "AND", "+", "cat:", "cs.CV">>,
   <<"cat:", "cs.CV", "+", "AND", "+", "all:", "xyz">>}

FetchRequests ==
  [source : {"arxiv", "reddit", "unsupported"}, category : FetchCategories,
   query : {NoStr, <<"xyz">>}, limit : {0, 1}]

\* fetch_articles (POST /articles), lines 20-83.
FetchArticles ==
  /\ endpoint = "none"
  /\ \E req \in FetchRequests :
     \E o1 \in Outcomes(MaxResults(req)), o2 \in Outcomes(MaxResults(req)),
        o3 \in Outcomes(MaxResults(req)) :
       LET res == IF req.source = "arxiv" THEN FetchArxiv(req, o1, o2, o3)
                  ELSE IF req.source = "reddit" THEN FetchReddit(req, o1)
                  ELSE FetchUnsupported(req)
       IN /\ request' = req
          /\ upstream' = res.calls
          /\ response' = [status |-> HandlerStatus(res.raised),
                          articles |-> res.articles,
                          total_found |-> Len(res.articles),
                          source |-> req.source]
  /\ endpoint' = "articles"
  /\ UNCHANGED vars

\* The group names of the static arXiv taxonomy.
ArxivTaxonomy ==
  {"Computer Science", "Economics", "Electrical Engineering and Systems Science",
   "Mathematics", "Physics", "Quantitative Biology", "Quantitative Finance",
   "Statistics"}

\* get_source_categories (GET /sources/{source}/categories), lines 85-124:
\* both branches return normally, which FastAPI answers with 200.
SourceCategories(source) ==
  IF source = "arxiv" THEN [status |-> 200, body |-> ArxivTaxonomy]
  ELSE [status |-> 200, body |-> {}]

GetSourceCategories ==
  /\ endpoint = "none"
  /\ \E source \in {"arxiv", "reddit", "unsupported"} :
       /\ request' = [source |-> source]
       /\ response' = SourceCategories(source)
  /\ endpoint' = "categories"
  /\ upstream' = <<>>
  /\ UNCHANGED vars

\* ---------------------------------------------------------------- py-genai
\* search_terms is a sequence of words and blanks.  str.lower on a word.
Lower(w) ==
  IF w = "Graph" THEN "graph" ELSE IF w = "Trends" THEN "trends" ELSE w

\* len(w) of the words of the model.
WordLen(w) == IF w = "Graph" THEN 5 ELSE IF w = "ai" THEN 2 ELSE 3

IsBlank(text) == \A k \in 1..Len(text) : text[k] = " "

\* _extract_search_terms, lines 93-105.
stop_words == {"the", "and", "or", "in", "on", "at", "to", "for", "of", "with", "by"}

\* _extract_search_terms, lines 106-108: the lower-cased words of three or
\* more letters outside stop_words, the first five, joined by blanks.
ExtractSearchTerms(text) ==
  LET words == SelectSeq(text, LAMBDA w : w # " " /\ WordLen(w) >= 3)
      lowered == [k \in 1..Len(words) |-> Lower(words[k])]
      meaningful == SelectSeq(lowered, LAMBDA w : w \notin stop_words)
  IN SubSeq(meaningful, 1, Min(5, Len(meaningful)))

\* build_advanced_query, lines 23-29.
BuildAdvancedQuery(search_terms, category) ==
  IF IsBlank(search_terms) THEN <<"cat:">> \o category
  ELSE <<"all:", "\"">> \o ExtractSearchTerms(search_terms)
       \o <<"\"", "+", "AND", "+", "cat:">> \o category

\* source.lower() of the path parameter.
LowerSource(source) == IF source = "ArXiv" THEN "arxiv" ELSE source

TermWords == {"Graph", "net", "the", "ai", " "}

BuildRequests ==
  [source : {"arxiv", "ArXiv", "reddit", "unsupported"},
   search_terms : UNION {[1..n -> TermWords] : n \in 0..MaxWords},
   category : {NoStr, <<"cs.LG">>},
   subreddit : {NoStr}]

\* build_source_query (POST /query/build/{source}), lines 12-43.
BuildSourceQuery ==
  /\ endpoint = "none"
  /\ \E req \in BuildRequests :
       LET src == LowerSource(req.source)
           category == IF Truthy(req.category) THEN req.category ELSE <<"cs.CV">>
           subreddit == IF Truthy(req.subreddit) THEN req.subreddit
                        ELSE <<"MachineLearning">>
           raised == src \notin {"arxiv", "reddit"}
       IN /\ request' = req
          /\ response' =
               [status |-> HandlerStatus(raised),
                query |-> IF src = "arxiv"
                          THEN BuildAdvancedQuery(req.search_terms, category)
                          ELSE IF src = "reddit" THEN subreddit ELSE <<>>,
                source |-> src]
  /\ endpoint' = "build"
  /\ upstream' = <<>>
  /\ UNCHANGED vars

\* ---------------------------------------------------------------- classifier
MaxQueryWords == 3  \* longest /classify query, in tokens

\* classify_query, line 23.
generic_words ==
  {"current", "latest", "recent", "research", "study", "studies", "trend",
   "trends", "paper", "papers", "growing", "growth"}

\* classify_query, lines 24-25: the generic words are cut out whatever their
\* case, runs of blanks collapse and the ends are stripped.
CleanQuery(query) ==
  SelectSeq(query, LAMBDA w : w # " " /\ Lower(w) \notin generic_words)

\* classify_source, lines 173-178.
FallbackClassification ==
  [source |-> "arxiv", source_type |-> "research", suggested_category |-> "cs.CV",
   confidence |-> 50]

\* ClassifyResponse(...): the response model takes a source of the API's
\* enumeration only.
ClassifyResponseAccepts(source) == source \in {"arxiv", "reddit"}

\* What the LLM call can do: raise, return text that is no JSON, return JSON
\* that is no object, or return a JSON object (with or without a markdown
\* fence) whose keys are present or not.  "<absent>" is a missing key,
\* "<number>" a value that is no string; confidence is in percent, -1 a
\* missing key.
LlmOutputs ==
  {[kind |-> k, fenced |-> FALSE, source |-> "<absent>", feed |-> "<absent>",
    legacy |-> "<absent>", confidence |-> -1] : k \in {"raise", "text", "list"}}
  \cup
  [kind : {"object"}, fenced : BOOLEAN,
   source : {"<absent>", "arxiv", "reddit", "twitter"},
   feed : {"<absent>", "", "cs.AI", "cv", "<number>"},
   legacy : {"<absent>", "cs.LG"},
   confidence : {-1, 90}]

\* classify_source, lines 140-178: the fence is stripped, the output parsed,
\* the keys read with their defaults; any exception on the way gives the
\* fallback.
ClassifySource(out) ==
  IF out.kind # "object" THEN FallbackClassification
  ELSE LET feed_or_legacy ==
             IF out.feed \notin {"<absent>", ""} THEN out.feed
             ELSE IF out.legacy = "<absent>" THEN "cs.CV" ELSE out.legacy
           suggested_cat == IF feed_or_legacy = "cv" THEN "cs.CV" ELSE feed_or_legacy
           source == IF out.source = "<absent>" THEN "arxiv" ELSE out.source
       IN IF feed_or_legacy = "<number>" \/ ~ClassifyResponseAccepts(source)
          THEN FallbackClassification
          ELSE [source |-> source,
                source_type |-> IF source = "arxiv" THEN "research" ELSE "community",
                suggested_category |-> suggested_cat,
                confidence |-> IF out.confidence = -1 THEN 80 ELSE out.confidence]

\* classify_query, line 30, sending the cleaned query whatever is left of it.
QueryForLlmCleanedOnly(query) == CleanQuery(query)

\* classify_query, line 30: cleaned_query or request.query.
QueryForLlm(query) == IF CleanQuery(query) # <<>> THEN CleanQuery(query) ELSE query

QueryWords == {"latest", "Trends", "gpu", " "}

ClassifyQueries == UNION {[1..n -> QueryWords] : n \in 0..MaxQueryWords}

\* classify_query (POST /classify), lines 14-43.
ClassifyQuery ==
  /\ endpoint = "none"
  /\ \E query \in ClassifyQueries, out \in LlmOutputs :
       /\ request' = [source |-> "classify", query |-> query]
       /\ IF IsBlank(query)
          THEN /\ upstream' = <<>>
               /\ response' = [status |-> 400]
          ELSE LET r == ClassifySource(out)
               IN /\ upstream' = <<[query |-> QueryForLlm(query), out |-> out]>>
                  /\ response' =
                       [status |-> 200, source |-> r.source,
                        source_type |-> IF r.source = "arxiv" THEN "research"
                                        ELSE "community",
                        suggested_category |-> r.suggested_category,
                        classified |-> r]
  /\ endpoint' = "classify"
  /\ UNCHANGED vars

\* One request is followed per behaviour: the handlers keep nothing from one
\* request to the next.
NextApi ==
  \/ FetchArticles
  \/ GetSourceCategories
  \/ BuildSourceQuery
  \/ ClassifyQuery

\* The handlers do not touch the vector store: it starts empty and stays so.
InitApi == Init /\ store = {}

SpecApi == InitApi /\ [][NextApi]_all_vars

\* ---------------------------------------------------------------- py-topics
\* ---------------------------------------------------------------- bounds
MaxClusters == 3  \* most clusters one clustering run yields

\* discover_topic, lines 172 and 191: a topic lists at most 50 articles.
ArticleCap == 50

\* discover_topic, line 131: up to 100 articles are clustered by KMeans.
KMeansLimit == 100

Max(a, b) == IF a > b THEN a ELSE b

RECURSIVE SumSeq(_)
SumSeq(s) == IF s = <<>> THEN 0 ELSE Head(s) + SumSeq(Tail(s))

\* discover_topic, line 133: k = max(1, int(sqrt(n / 2))).
KMeansK(n) == Max(1, CHOOSE k \in 0..n : 2 * k * k <= n /\ 2 * (k + 1) * (k + 1) > n)

\* discover_topic, line 139: the smallest cluster HDBSCAN forms.
EffectiveMinSize(n, min_cluster_size) == Max(2, Min(min_cluster_size, n \div 8))

\* The sizes a cluster has, the articles HDBSCAN leaves as noise, the titles
\* _generate_topic_info gives, int(avg_conf * 100) of an HDBSCAN cluster and
\* the min_cluster_size of a request.
ClusterSizes == {1, 3, 5, 60}
NoiseCounts == {0, 110}
Titles == {"Vision", "Robots"}
ConfPercents == {1, 50, 100}
MinClusterSizes == {2, 5}

\* The positions of the article list for which GET /embeddings may return an
\* empty entry, and the longest article list for which a GET or POST that
\* fails is explored.
MissPositions == {2}
MaxRefetch == 10

\* ------------------------------------------------------ embedding retrieval
\* Article i of a request has the key i and the text "title summary" of
\* article i.  The list `embeddings` of discover_topic is kept as the set of
\* positions that hold None and the set of positions that hold the empty
\* list []; every other position holds a vector.

\* discover_topic, lines 52-67: what GET /embeddings?ids=<all keys> does for n
\* articles: it raises, or it returns one entry per id, empty for some.
GetOutcomes(n) ==
  {[raised |-> FALSE, empty |-> {}]}
    \cup (IF n \in 1..MaxRefetch
          THEN {[raised |-> TRUE, empty |-> {}],
                [raised |-> FALSE, empty |-> MissPositions \cap (1..n)]}
          ELSE {})

\* discover_topic, lines 47 and 52-67: the positions None after the GET; an
\* empty entry is skipped (line 64) and a failed GET fills no position.
NoneAfterGet(n, get) == IF get.raised THEN 1..n ELSE get.empty

RECURSIVE Ascending(_)
Ascending(S) ==
  IF S = {} THEN <<>>
  ELSE LET m == CHOOSE x \in S : \A y \in S : x <= y
       IN <<m>> \o Ascending(S \ {m})

\* discover_topic, line 72: the positions still None, ascending.
MissingIndices(none) == Ascending(none)

\* discover_topic, lines 56-59: the GET carries every article key.
GetRequest(n) == [method |-> "GET", ids |-> [i \in 1..n |-> i]]

\* discover_topic, lines 74-81: the body of POST /embeddings.
PostRequest(missing_indices) ==
  [method |-> "POST",
   ids |-> [k \in 1..Len(missing_indices) |-> missing_indices[k]],
   texts |-> [k \in 1..Len(missing_indices) |-> missing_indices[k]]]

\* discover_topic, lines 80-91: what the POST does: it raises, or it returns
\* one entry per text, of which the entries `unfilled` are None or [] because
\* the generation failed.
PostOutcomes(missing_indices) ==
  IF missing_indices = <<>>
  THEN {[raised |-> FALSE, unfilled |-> {}, kind |-> "None"]}
  ELSE {[raised |-> TRUE, unfilled |-> {}, kind |-> "None"],
        [raised |-> FALSE, unfilled |-> {}, kind |-> "None"],
        [raised |-> FALSE, unfilled |-> {1}, kind |-> "None"],
        [raised |-> FALSE, unfilled |-> {1}, kind |-> "[]"]}

\* discover_topic, lines 87-89: zip(missing_indices, new_embeddings) puts the
\* k-th entry of the reply, the vector of the k-th text, at the k-th missing
\* position: the pairs <<position, article whose text the vector embeds>>.
Placed(missing_indices, post) ==
  IF post.raised THEN {}
  ELSE {<<missing_indices[k], PostRequest(missing_indices).texts[k]>> :
          k \in (1..Len(missing_indices)) \ post.unfilled}

\* discover_topic, lines 87-91: the positions None and the positions [] after
\* the POST; an entry None or [] of the reply is stored like a vector.
AfterPost(none, post) ==
  LET missing_indices == MissingIndices(none)
      hit == {missing_indices[k] : k \in post.unfilled \cap (1..Len(missing_indices))}
  IN IF post.raised THEN [none |-> none, empty |-> {}]
     ELSE [none |-> IF post.kind = "None" THEN hit ELSE {},
           empty |-> IF post.kind = "[]" THEN hit ELSE {}]

\* discover_topic, lines 52-91, with a POST for every article as soon as one
\* position is missing.
RetrievalCallsPostAll(n, get) ==
  LET missing_indices == MissingIndices(NoneAfterGet(n, get))
  IN <<GetRequest(n)>>
       \o (IF missing_indices # <<>>
           THEN <<PostRequest([i \in 1..n |-> i])>>
           ELSE <<>>)

\* discover_topic, lines 52-91: the calls made to the embedding service.
RetrievalCalls(n, get) ==
  LET missing_indices == MissingIndices(NoneAfterGet(n, get))
  IN <<GetRequest(n)>>
       \o (IF missing_indices # <<>> THEN <<PostRequest(missing_indices)>>
           ELSE <<>>)

\* discover_topic, lines 94-101: a position still None gets a zero vector and
\* its article stays in the list: the number of articles handed to the
\* clustering.
ClusteredCount(n, none) == n

\* discover_topic, lines 105-148: an empty list among the vectors makes the
\* array ragged (or of no columns) and the numeric pipeline raises.
PipelineRejects(embs) == embs.empty # {}

\* ---------------------------------------------------------------- clustering
\* What the clustering library can return for n articles: KMeans labels every
\* article, forms at most k clusters and has no probabilities (1.0 is used);
\* HDBSCAN forms clusters of at least its min_cluster_size and may leave
\* articles unlabelled.
ClusteringPossible(n, sizes, noise, confs, min_cluster_size) ==
  IF n <= KMeansLimit
  THEN /\ noise = 0
       /\ Len(sizes) <= KMeansK(n)
       /\ \A k \in 1..Len(confs) : confs[k] = 100
  ELSE \A k \in 1..Len(sizes) : sizes[k] >= EffectiveMinSize(n, min_cluster_size)

\* discover_topic, lines 151-158: the dict `clusters` keeps the labels in the
\* order in which the article list first shows them; the k-th cluster of that
\* order has the label LabelOrders[k], ascending or descending (labels are 0,
\* 1, .. as the library numbers them).
LabelOrders(nc) ==
  {[k \in 1..nc |-> k - 1], [k \in 1..nc |-> nc - k]}

\* Topic(...), lines 166-193: `listed` is the length of the topic's article
\* list, which is cut to the cap when the topic is built; `members` counts
\* the articles of the clusters the topic stands for and `cluster` is the
\* label of the cluster it was built from (-1: none).
NewTopic(cluster, title, count, relevance) ==
  [title |-> title, article_count |-> count, relevance |-> relevance,
   listed |-> Min(count, ArticleCap), members |-> count, cluster |-> cluster]

\* discover_topic, lines 162-193: the single topic when no cluster was
\* formed, one topic per cluster otherwise.
BuildTopics(n, sizes, titles, confs, labels) ==
  IF sizes = <<>> THEN <<NewTopic(-1, "Main Topic", n, 100)>>
  ELSE [k \in 1..Len(sizes) |->
          NewTopic(labels[k], titles[k], sizes[k], confs[k])]

\* _deduplicate_and_merge_topics, line 430: the cleaned title, lower-cased.
TitleKey(title) ==
  IF title = "Vision" THEN "vision"
  ELSE IF title = "Robots" THEN "robots" ELSE "main topic"

\* _deduplicate_and_merge_topics, lines 427-440: topics of one title are
\* merged into the first of them; `merged` is the dict's values in insertion
\* order.
RECURSIVE DedupeTitles(_, _)
DedupeTitles(topics, merged) ==
  IF topics = <<>> THEN merged
  ELSE LET t == Head(topics)
           ks == {k \in 1..Len(merged) : TitleKey(merged[k].title) = TitleKey(t.title)}
       IN IF ks = {} THEN DedupeTitles(Tail(topics), Append(merged, t))
          ELSE LET k == CHOOSE k \in ks : TRUE
                   e == merged[k]
               IN DedupeTitles(Tail(topics),
                    [merged EXCEPT ![k] =
                       [title |-> e.title,
                        listed |-> e.listed + t.listed,
                        article_count |-> e.listed + t.listed,
                        relevance |-> Max(e.relevance, t.relevance),
                        members |-> e.members + t.members,
                        cluster |-> e.cluster]])

\* _deduplicate_and_merge_topics, lines 442-452, with the primary topic left
\* in the list and appended once more.
MergeSmallKeepPrimary(deduped, min_cluster_size) ==
  LET small == SelectSeq(deduped,
                 LAMBDA t : t.article_count < Max(2, min_cluster_size))
      large == SelectSeq(deduped,
                 LAMBDA t : t.article_count >= Max(2, min_cluster_size))
  IN IF large = <<>> \/ small = <<>> THEN deduped
     ELSE LET p == CHOOSE k \in 1..Len(large) :
                     /\ \A j \in 1..Len(large) :
                          large[j].article_count <= large[k].article_count
                     /\ \A j \in 1..(k - 1) :
                          large[j].article_count < large[k].article_count
              added == SumSeq([k \in 1..Len(small) |-> small[k].listed])
              rel == CHOOSE r \in {large[p].relevance}
                                  \cup {small[k].relevance : k \in 1..Len(small)} :
                       /\ r >= large[p].relevance
                       /\ \A k \in 1..Len(small) : r >= small[k].relevance
              primary ==
                [title |-> large[p].title,
                 listed |-> large[p].listed + added,
                 article_count |-> large[p].listed + added,
                 relevance |-> rel,
                 members |-> large[p].members
                             + SumSeq([k \in 1..Len(small) |-> small[k].members]),
                 cluster |-> large[p].cluster]
          IN [large EXCEPT ![p] = primary] \o <<primary>>

\* _deduplicate_and_merge_topics, lines 442-452: the topics below
\* max(2, min_cluster_size) are poured into the largest of the others (the
\* first of the largest), which moves to the end of the list.
MergeSmall(deduped, min_cluster_size) ==
  LET small == SelectSeq(deduped,
                 LAMBDA t : t.article_count < Max(2, min_cluster_size))
      large == SelectSeq(deduped,
                 LAMBDA t : t.article_count >= Max(2, min_cluster_size))
  IN IF large = <<>> \/ small = <<>> THEN deduped
     ELSE LET p == CHOOSE k \in 1..Len(large) :
                     /\ \A j \in 1..Len(large) :
                          large[j].article_count <= large[k].article_count
                     /\ \A j \in 1..(k - 1) :
                          large[j].article_count < large[k].article_count
              added == SumSeq([k \in 1..Len(small) |-> small[k].listed])
              rel == CHOOSE r \in {large[p].relevance}
                                  \cup {small[k].relevance : k \in 1..Len(small)} :
                       /\ r >= large[p].relevance
                       /\ \A k \in 1..Len(small) : r >= small[k].relevance
              primary ==
                [title |-> large[p].title,
                 listed |-> large[p].listed + added,
                 article_count |-> large[p].listed + added,
                 relevance |-> rel,
                 members |-> large[p].members
                             + SumSeq([k \in 1..Len(small) |-> small[k].members]),
                 cluster |-> large[p].cluster]
          IN SubSeq(large, 1, p - 1) \o SubSeq(large, p + 1, Len(large))
             \o <<primary>>

\* The sort key of a is greater than that of b: the key is (relevance,
\* article_count), or the relevance alone.
KeyGreater(a, b, with_count) ==
  \/ a.relevance > b.relevance
  \/ with_count /\ a.relevance = b.relevance /\ a.article_count > b.article_count

\* One insertion of a stable descending sort: t goes before the first topic
\* of smaller key.
InsertTopic(sorted, t, with_count) ==
  LET ks == {k \in 1..Len(sorted) : KeyGreater(t, sorted[k], with_count)}
      at == IF ks = {} THEN Len(sorted) + 1
            ELSE CHOOSE k \in ks : \A j \in ks : k <= j
  IN SubSeq(sorted, 1, at - 1) \o <<t>> \o SubSeq(sorted, at, Len(sorted))

RECURSIVE SortBy(_, _, _)
SortBy(topics, sorted, with_count) ==
  IF topics = <<>> THEN sorted
  ELSE SortBy(Tail(topics), InsertTopic(sorted, Head(topics), with_count), with_count)

\* discover_topic, line 198, sorting on the relevance alone.
SortTopicsByRelevance(topics) == SortBy(topics, <<>>, FALSE)

\* discover_topic, line 198: topics.sort(key=(relevance, article_count),
\* reverse=True), a stable sort.
SortTopics(topics) == SortBy(topics, <<>>, TRUE)

\* discover_topic, lines 33-212: the answer for n articles, given what the
\* clustering returned and whether a step of the pipeline raised.
DiscoverTopicResult(n, sizes, titles, confs, labels, min_cluster_size, fails) ==
  IF n = 0 \/ fails THEN [topics |-> <<>>, total_articles_processed |-> 0]
  ELSE [topics |-> SortTopics(MergeSmall(
                     DedupeTitles(BuildTopics(n, sizes, titles, confs, labels),
                                  <<>>),
                     min_cluster_size)),
        total_articles_processed |-> n]

\* discover_topic, lines 32-33: the keyword parameters of the method.
DiscoverTopicKeywords ==
  {"query", "article_keys", "articles", "min_cluster_size", "n_components"}

\* discover_topics, lines 46-52: the keywords the endpoint passes.
EndpointKeywords ==
  {"query", "article_keys", "articles", "min_cluster_size", "nr_topics"}

\* A call binds when the method has a parameter for every keyword passed;
\* otherwise Python raises TypeError before the method body runs.
CallBinds(passed, accepted) == passed \subseteq accepted

\* discover_topics, lines 26-61: the status of the answer: 400 for an empty
\* article list (raised before the try), 500 when the call into the service
\* raises (except Exception, lines 56-61), 200 otherwise.
EndpointStatus(n, call_raises) ==
  IF n = 0 THEN 400 ELSE IF call_raises THEN 500 ELSE 200

\* One discovery over n articles: through the endpoint discover_topics
\* (main.py, lines 26-61) or by a direct call of discover_topic
\* (topic_service.py, lines 32-212).  A run that raises before the topics are
\* built has no clustering outcome, and an endpoint call that does not reach
\* the service has no embedding retrieval.
Discover(via_endpoint) ==
  /\ endpoint = "none"
  /\ \E nc \in 0..MaxClusters :
     \E sizes \in [1..nc -> ClusterSizes], titles \in [1..nc -> Titles],
        confs \in [1..nc -> ConfPercents], labels \in LabelOrders(nc) :
     \E noise \in NoiseCounts, mcs \in MinClusterSizes, raises \in BOOLEAN :
       LET n == SumSeq(sizes) + noise
           reaches == n > 0 /\ (via_endpoint =>
                                  CallBinds(EndpointKeywords, DiscoverTopicKeywords))
           plain == /\ nc <= 1
                    /\ \A k \in 1..nc : titles[k] = "Vision" /\ confs[k] = 100
       IN /\ plain \/ ClusteringPossible(ClusteredCount(n, {}), sizes, noise,
                                         confs, mcs)
          /\ ~reaches => ~raises
          /\ \E get \in GetOutcomes(n) :
             \E post \in PostOutcomes(MissingIndices(NoneAfterGet(n, get))) :
               LET none == NoneAfterGet(n, get)
                   embs == AfterPost(none, post)
                   fails == reaches /\ (raises \/ PipelineRejects(embs))
                   built == reaches /\ ~fails
                   result == DiscoverTopicResult(n, sizes, titles, confs,
                                                 labels, mcs, fails)
               IN /\ built => ClusteringPossible(ClusteredCount(n, embs.none),
                                                 sizes, noise, confs, mcs)
                  /\ ~built => plain
                  /\ PipelineRejects(embs) => ~raises
                  /\ ~reaches => get = [raised |-> FALSE, empty |-> {}]
                  /\ request' =
                       [source |-> IF via_endpoint THEN "discover_topics"
                                   ELSE "discover_topic",
                        n |-> n,
                        min_cluster_size |-> mcs,
                        get |-> get, post |-> post,
                        placed |-> IF reaches
                                   THEN Placed(MissingIndices(none), post)
                                   ELSE {},
                        absent |-> IF reaches THEN embs.none ELSE {},
                        fails |-> fails,
                        sizes |-> IF built THEN sizes ELSE <<>>,
                        titles |-> IF built THEN titles ELSE <<>>,
                        confs |-> IF built THEN confs ELSE <<>>,
                        labels |-> IF built THEN labels ELSE <<>>,
                        noise |-> IF built THEN noise ELSE 0]
                  /\ upstream' = IF reaches THEN RetrievalCalls(n, get) ELSE <<>>
                  /\ response' =
                       IF via_endpoint
                       THEN [status |-> EndpointStatus(n, ~reaches),
                             topics |-> IF reaches THEN result.topics ELSE <<>>,
                             total_articles_processed |->
                               IF reaches THEN result.total_articles_processed
                               ELSE 0]
                       ELSE result
  /\ endpoint' = IF via_endpoint THEN "discover_topics" ELSE "discover_topic"
  /\ UNCHANGED vars

\* discover_topic, lines 32-212, called directly.
DiscoverTopic == Discover(FALSE)

\* discover_topics, lines 26-61: POST /api/v1/topics/discover.
DiscoverTopics == Discover(TRUE)

NextTopics == DiscoverTopic \/ DiscoverTopics

SpecTopics == InitApi /\ [][NextTopics]_all_vars

\* ---------------------------------------------------------------- properties
\* The pairs a request has written to the store (its upsert ran).
WrittenBy(c) ==
  IF pc[c] = "done" /\ upsert_calls[c] = 1 /\ "upsert" \notin io_error[c]
  THEN SetOf(UpsertPairs(new_ids[c], new_embeddings[c]))
  ELSE {}

\* The positions of a request whose id the store read returned.
ServedFromStore(c) == {k \in 1..Len(ids[c]) : ids[c][k] \in DOMAIN cached_map[c]}

\* The texts of the positions whose id is not in `found`, in input order.
RECURSIVE ExpectedBatch(_, _, _)
ExpectedBatch(ts, is, found) ==
  IF ts = <<>> THEN <<>>
  ELSE IF Head(is) \in found THEN ExpectedBatch(Tail(ts), Tail(is), found)
       ELSE <<Head(ts)>> \o ExpectedBatch(Tail(ts), Tail(is), found)

\* C1: a finished embed_batch_with_cache returns exactly len(ids) entries;
\* entry k is the stored vector of ids[k] when the read found it (a vector an
\* earlier upsert wrote for that id), and otherwise the provider's vector of
\* texts[k] or an absent entry.
C1_AlignedResult ==
  \A c \in Calls : pc[c] = "done" =>
    /\ Len(vectors[c]) = Len(ids[c])
    /\ Len(texts[c]) = Len(ids[c])
    /\ \A k \in 1..Len(ids[c]) :
         IF k \in ServedFromStore(c)
         THEN /\ vectors[c][k] = cached_map[c][ids[c][k]]
              /\ \E d \in Calls : <<ids[c][k], vectors[c][k]>> \in WrittenBy(d)
         ELSE vectors[c][k] \in {Embed(texts[c][k]), EmptyVec, None}

\* C1 witness: a two-entry request whose second id was served from the store
\* and whose first id was generated.
C1_Witness ==
  \E c \in Calls :
    /\ pc[c] = "done" /\ Len(ids[c]) = 2
    /\ ServedFromStore(c) = {2}
    /\ vectors[c][1] = Embed(texts[c][1])
    /\ vectors[c][2] # vectors[c][1]

\* C2: a request invokes the provider at most once, with exactly the texts of
\* the positions whose id the read did not find, in input order; found
\* positions hold the stored vector; with nothing missing neither the
\* provider nor the upsert is invoked.
C2_ProviderOnlyForMissing ==
  \A c \in Calls : pc[c] \in {"embed", "upsert", "done"} =>
    LET want == ExpectedBatch(texts[c], ids[c], DOMAIN cached_map[c])
    IN /\ Len(provider_calls[c]) <= 1
       /\ upsert_calls[c] <= 1
       /\ (want # <<>> /\ pc[c] \in {"upsert", "done"}) => provider_calls[c] = <<want>>
       /\ want = <<>> =>
            pc[c] = "done" /\ provider_calls[c] = <<>> /\ upsert_calls[c] = 0
       /\ \A k \in ServedFromStore(c) : vectors[c][k] = cached_map[c][ids[c][k]]

\* C2 witness: partial hit; the provider got the one missing text.
C2_Witness ==
  \E c \in Calls :
    /\ pc[c] = "done" /\ Len(ids[c]) = 2
    /\ ServedFromStore(c) = {1}
    /\ provider_calls[c] = << <<texts[c][2]>> >>
    /\ texts[c][1] # texts[c][2]

\* Request d ran after request c had returned, with the same single id.
SameIdAfter(c, d) ==
  /\ c # d
  /\ pc[c] = "done" /\ pc[d] = "done"
  /\ c \in seen[d]
  /\ Len(ids[c]) = 1
  /\ ids[d] = ids[c]

C4_OncePerIdPerBatch ==
  \A c \in Calls : provider_calls[c] # <<>> =>
    Len(provider_calls[c][1]) =
      Cardinality({ids[c][k] : k \in (1..Len(ids[c])) \ ServedFromStore(c)})

\* A finished request in which no store read, provider call or upsert failed.
NoFault(c) ==
  /\ pc[c] = "done"
  /\ io_error[c] = {}
  /\ Len(new_embeddings[c]) = Len(new_texts[c])
  /\ \A j \in 1..Len(new_embeddings[c]) : new_embeddings[c][j] # EmptyVec

\* The requests that asked the provider for an embedding of id i.
Computed(i) ==
  {c \in Calls : provider_calls[c] # <<>> /\
                 \E j \in 1..Len(new_ids[c]) : new_ids[c][j][2] = i}

\* C5 as claimed: over all requests the provider computes an embedding for a
\* given id at most once (counted here only over requests in which nothing
\* failed, the reading most favourable to the claim).
C5_Original ==
  \A i \in Ids : Cardinality({c \in Computed(i) : NoFault(c)}) <= 1

\* C5 amended: a request whose store read succeeds never sends to the
\* provider an id for which the store holds an embedding at that read.
C5_ComputeOnlyOnMiss ==
  [][\A c \in Calls :
       (pc[c] = "idle" /\ pc'[c] \in {"embed", "done"} /\ "read" \notin io_error'[c])
       => \A r \in store : r[2] # None =>
            \A j \in 1..Len(new_ids'[c]) : new_ids'[c][j][2] # r[1]]_vars

\* C5 witness: a request whose read succeeded was served one id from the
\* store and sent only its other id to the provider.
C5_Witness ==
  \E c \in Calls :
    /\ pc[c] = "done" /\ "read" \notin io_error[c]
    /\ ServedFromStore(c) # {}
    /\ provider_calls[c] # <<>>
    /\ \A k \in ServedFromStore(c) :
         \A j \in 1..Len(new_ids[c]) : new_ids[c][j][2] # ids[c][k]

\* The table has at most one row per external_id.
OneRowPerId == \A r1 \in store, r2 \in store : r1[1] = r2[1] => r1 = r2

\* The row of an id holds the vector of the last upsert that ran for it.
StoreHoldsLast ==
  \A i \in Ids : last_upsert[i] # None => <<i, last_upsert[i]>> \in store

\* Two requests that overlapped in time.
Concurrent(c, d) ==
  c # d /\ pc[c] # "idle" /\ pc[d] # "idle" /\ c \notin seen[d] /\ d \notin seen[c]

\* C6 as claimed: the store has one row per id holding the last upsert, and
\* concurrent requests that write the same id all receive a present vector
\* (stated here for requests whose store read and upsert did not fail).
C6_Original ==
  /\ OneRowPerId
  /\ StoreHoldsLast
  /\ \A c \in Calls, d \in Calls :
       (Concurrent(c, d) /\ pc[c] = "done" /\ pc[d] = "done"
        /\ io_error[c] = {} /\ io_error[d] = {}) =>
         \A j \in 1..Len(new_ids[c]) :
           (\E j2 \in 1..Len(new_ids[d]) : new_ids[d][j2][2] = new_ids[c][j][2])
           => ~IsAbsent(vectors[c][new_ids[c][j][1]])

\* C6 amended: one row per id holding the last upsert that ran, and every
\* caller to which the provider returned a vector for a position receives
\* that vector, whether or not its upsert ran or was overwritten.
C6_ConcurrentWritesSafe ==
  /\ OneRowPerId
  /\ StoreHoldsLast
  /\ \A c \in Calls : pc[c] = "done" =>
       \A j \in 1..Len(new_ids[c]) :
         (j <= Len(new_embeddings[c]) /\ new_embeddings[c][j] # EmptyVec)
         => /\ vectors[c][new_ids[c][j][1]] = new_embeddings[c][j]
            /\ ~IsAbsent(vectors[c][new_ids[c][j][1]])

\* C6 witness: two overlapping requests upserted different vectors for the
\* same id; the row holds one of them and each caller holds its own.
C6_Witness ==
  \E c \in Calls, d \in Calls :
    /\ Concurrent(c, d) /\ pc[c] = "done" /\ pc[d] = "done"
    /\ Len(ids[c]) = 1 /\ ids[d] = ids[c]
    /\ WrittenBy(c) # {} /\ WrittenBy(d) # {}
    /\ vectors[c] # vectors[d]
    /\ <<ids[d][1], vectors[d][1]>> \in store

\* C7 as claimed: cached_count is the number of positions served from the
\* store, also for inputs that repeat an id.
C7_CachedCountPositions ==
  \A c \in Calls : pc[c] = "done" =>
    cached_count[c] = Cardinality(ServedFromStore(c))

\* Generation failed for position k: the provider raised, or returned too
\* few vectors to reach it.
GenFailed(c, k) ==
  \E j \in 1..Len(new_ids[c]) :
    /\ new_ids[c][j][1] = k
    /\ (j > Len(new_embeddings[c]) \/ new_embeddings[c][j] = EmptyVec)

C9_NoCacheIOErrorEscapes ==
  \A c \in Calls :
    /\ pc[c] # "raised"
    /\ ("read" \in io_error[c] /\ pc[c] \in {"embed", "upsert", "done"}) =>
         /\ cached_count[c] = 0
         /\ new_texts[c] = texts[c]
         /\ pc[c] \in {"upsert", "done"} =>
              provider_calls[c] = IF texts[c] = <<>> THEN <<>> ELSE <<texts[c]>>
    /\ (pc[c] = "done" /\ "upsert" \in io_error[c]) =>
         \A j \in 1..Min(Len(new_ids[c]), Len(new_embeddings[c])) :
           vectors[c][new_ids[c][j][1]] = new_embeddings[c][j]

\* C9 witness: the read and the upsert both failed, the stored id was
\* recomputed and the caller has the new vectors.
C9_Witness ==
  \E c \in Calls :
    /\ pc[c] = "done" /\ io_error[c] = {"read", "upsert"}
    /\ Len(ids[c]) = 2
    /\ \E r \in store : r[1] = ids[c][1] /\ r[2] # None
    /\ vectors[c] = <<Embed(texts[c][1]), Embed(texts[c][2])>>

C11_MismatchRejected ==
  [][\A c \in Calls :
       /\ (pc[c] = "idle" /\ pc'[c] # "got" /\ Len(texts'[c]) # Len(ids'[c])) =>
            /\ pc'[c] = "rejected"
            /\ status'[c] = 400
            /\ store' = store /\ last_upsert' = last_upsert
            /\ cached_map'[c] = <<>> /\ io_error'[c] = {}
            /\ provider_calls'[c] = <<>> /\ upsert_calls'[c] = 0
       /\ pc[c] = "rejected" =>
            /\ pc'[c] = "rejected" /\ status'[c] = status[c]
            /\ provider_calls'[c] = <<>> /\ upsert_calls'[c] = 0]_vars

\* C11 witness: a request with one text and two ids was refused while another
\* request had already written to the store.
C11_Witness ==
  \E c \in Calls, d \in Calls :
    /\ pc[c] = "rejected" /\ Len(texts[c]) = 1 /\ Len(ids[c]) = 2
    /\ WrittenBy(d) # {}

\* ------------------------------------------------- properties of the handlers
\* The first call of a log that returned articles (0 when none did).
FirstNonEmpty(calls) ==
  LET ks == {k \in 1..Len(calls) : calls[k].n > 0}
  IN IF ks = {} THEN 0 ELSE CHOOSE k \in ks : \A j \in ks : k <= j

\* C12: an arXiv fetch submits its expressions in tier order: tier 1 is the
\* original expression, tier 2 the category-only expression of an advanced
\* category, tier 3 the free-text query; a call is made only after every
\* earlier call returned zero articles, and no applicable tier is left out
\* while all are empty.  The answer carries the articles of the first call
\* that returned any; when every call was empty the answer is 200 with an
\* empty list.
C12_TierOrder ==
  (endpoint = "articles" /\ request.source = "arxiv") =>
    LET calls == upstream
        cat == request.category
        tiers == {calls[k].tier : k \in 1..Len(calls)}
        all_empty == \A k \in 1..Len(calls) : ~calls[k].raised /\ calls[k].n = 0
        first == FirstNonEmpty(calls)
    IN /\ Len(calls) >= 1 /\ calls[1].tier = 1
       /\ \A i \in 1..Len(calls), j \in 1..Len(calls) :
            i < j => /\ calls[i].tier < calls[j].tier
                     /\ ~calls[i].raised /\ calls[i].n = 0
       /\ \A k \in 1..Len(calls) :
            /\ calls[k].tier \in 1..3
            /\ calls[k].tier = 1 =>
                 calls[k].query =
                   (IF Truthy(cat) /\ (Contains(cat, "cat:") \/ Contains(cat, "all:"))
                    THEN cat
                    ELSE IF Truthy(cat) THEN <<"cat:">> \o cat ELSE request.query)
            /\ calls[k].tier = 2 =>
                 /\ Truthy(cat) /\ Contains(cat, "cat:")
                 /\ calls[k].query = <<"cat:">> \o AfterLast(cat, "cat:")
            /\ calls[k].tier = 3 =>
                 Truthy(request.query) /\ calls[k].query = request.query
       /\ all_empty =>
            /\ (Truthy(cat) /\ Contains(cat, "cat:")
                /\ (Contains(cat, "all:") \/ Contains(cat, "AND"))) => 2 \in tiers
            /\ Truthy(request.query) => 3 \in tiers
            /\ response.status = 200 /\ response.articles = <<>>
       /\ first # 0 =>
            /\ response.status = 200
            /\ response.articles = Articles("arxiv", calls[first].query, calls[first].n)
       /\ (\E k \in 1..Len(calls) : calls[k].raised) => response.status = 500

\* C12 witness: the advanced expression and the category-only expression
\* returned nothing, the free-text query returned two articles, and the
\* answer carries these two, both from arxiv.
C12_Witness ==
  /\ endpoint = "articles" /\ request.source = "arxiv"
  /\ request.category = <<"all:", "\"", "xyz", "\"", "+", "AND", "+", "cat:", "cs.CV">>
  /\ Len(upstream) = 3
  /\ upstream[1].n = 0 /\ upstream[2].n = 0 /\ upstream[3].n = 2
  /\ upstream[2].query = <<"cat:", "cs.CV">> /\ upstream[3].query = <<"xyz">>
  /\ response.status = 200 /\ Len(response.articles) = 2
  /\ \A k \in 1..2 : response.articles[k].source = "arxiv"

\* C13: a request that names an unsupported source is answered with status
\* 400, by POST /query/build/{source} and by POST /articles.
C13_UnsupportedSource400 ==
  (\/ endpoint = "build" /\ LowerSource(request.source) \notin {"arxiv", "reddit"}
   \/ endpoint = "articles" /\ request.source \notin {"arxiv", "reddit"})
  => response.status = 400

\* C14: GET /sources/{source}/categories answers 200 with the arXiv taxonomy
\* for arxiv and 404 for every other source.
C14_CategoriesStatus ==
  endpoint = "categories" =>
    IF request.source = "arxiv"
    THEN response.status = 200 /\ response.body = ArxivTaxonomy
    ELSE response.status = 404

\* The LLM output does not have the shape the prompt asks for: no source of
\* the enumeration, or no category (neither a feed nor the legacy key holds a
\* string).
InvalidShape(out) ==
  \/ out.source \notin {"arxiv", "reddit"}
  \/ out.feed = "<number>"
  \/ out.feed \in {"<absent>", ""} /\ out.legacy = "<absent>"

\* C15: classify_source returns (it does not raise), and whenever the LLM
\* call failed, its output was no JSON, or the parsed value has an invalid
\* shape, the result is the fallback arxiv / research / cs.CV / 0.5.
C15_ClassifyFallback ==
  (endpoint = "classify" /\ upstream # <<>>) =>
    /\ response.status = 200
    /\ (upstream[1].out.kind # "object" \/ InvalidShape(upstream[1].out)) =>
         response.classified = FallbackClassification

\* C16 as stated: a query that is empty after trimming and removal of the
\* filler tokens is answered with the fallback (arxiv, cs.CV) and the LLM is
\* not contacted.
C16_Original ==
  (endpoint = "classify" /\ CleanQuery(request.query) = <<>>) =>
    /\ upstream = <<>>
    /\ response.status = 200
    /\ response.source = "arxiv" /\ response.suggested_category = "cs.CV"

\* C16 amended: a query that is empty after trimming is refused with status
\* 400 and the LLM is not contacted; a query that is not blank but empty
\* after removal of the filler tokens is sent to the LLM once, in its
\* original form, and answered with status 200.
C16_BlankRefusedFillerForwarded ==
  endpoint = "classify" =>
    /\ IsBlank(request.query) => upstream = <<>> /\ response.status = 400
    /\ (~IsBlank(request.query) /\ CleanQuery(request.query) = <<>>) =>
         /\ Len(upstream) = 1 /\ upstream[1].query = request.query
         /\ response.status = 200

\* C16 witness: a query of filler words only was sent to the LLM as it came.
C16_Witness ==
  /\ endpoint = "classify"
  /\ request.query = <<"latest", " ", "Trends">>
  /\ Len(upstream) = 1 /\ upstream[1].query = request.query
  /\ response.status = 200 /\ response.suggested_category = "cs.AI"

\* The lower-cased words of three or more letters outside the stop set, in
\* encounter order.
MeaningfulTokens(text) ==
  LET kept == SelectSeq(text, LAMBDA w : /\ w # " " /\ WordLen(w) >= 3
                                         /\ Lower(w) \notin stop_words)
  IN [k \in 1..Len(kept) |-> Lower(kept[k])]

\* C17: build_advanced_query emits cat:<category> whenever no meaningful token
\* remains, and otherwise all:"<tokens>"+AND+cat:<category> with the first
\* five meaningful tokens in encounter order.
C17_BuildAdvancedQuery ==
  (endpoint = "build" /\ LowerSource(request.source) = "arxiv") =>
    LET toks == MeaningfulTokens(request.search_terms)
        category == IF Truthy(request.category) THEN request.category
                    ELSE <<"cs.CV">>
    IN response.query =
         IF toks = <<>> THEN <<"cat:">> \o category
         ELSE <<"all:", "\"">> \o SubSeq(toks, 1, Min(5, Len(toks)))
              \o <<"\"", "+", "AND", "+", "cat:">> \o category

\* ------------------------------------------------- properties of the topics
\* C18: a discovery result with at least one topic has exactly one topic of
\* relevance 100, and every topic has a relevance from 1 to 100.
C18_OneTopicAtHundred ==
  (endpoint = "discover_topic" /\ response.topics # <<>>) =>
    LET topics == response.topics
    IN /\ Cardinality({k \in 1..Len(topics) : topics[k].relevance = 100}) = 1
       /\ \A k \in 1..Len(topics) : topics[k].relevance \in 1..100

\* C19: the topics of a discovery result are in the order (relevance
\* descending, articleCount descending): no topic comes after one of smaller
\* relevance, or of equal relevance and smaller articleCount.
C19_TopicsSorted ==
  endpoint = "discover_topic" =>
    \A i \in 1..Len(response.topics), j \in 1..Len(response.topics) :
      i < j =>
        \/ response.topics[i].relevance > response.topics[j].relevance
        \/ /\ response.topics[i].relevance = response.topics[j].relevance
           /\ response.topics[i].article_count >= response.topics[j].article_count

\* C19 witness: two of three clusters shared a title and were merged, which
\* changed relevance and articleCount, and the two topics left differ in
\* relevance and in articleCount.
C19_Witness ==
  /\ endpoint = "discover_topic"
  /\ Len(request.sizes) = 3 /\ Len(response.topics) = 2
  /\ request.titles[1] = request.titles[2]
  /\ request.confs[1] # request.confs[2]
  /\ response.topics[1].relevance > response.topics[2].relevance
  /\ response.topics[1].article_count < response.topics[2].article_count

\* C20: the articleCount of the topics of a discovery result add up to at
\* most totalArticlesProcessed.
C20_CountsWithinTotal ==
  endpoint = "discover_topic" =>
    SumSeq([k \in 1..Len(response.topics) |-> response.topics[k].article_count])
      <= response.total_articles_processed

\* C20 witness: the smaller of two clusters of different titles was poured
\* into the larger one, and the one topic left counts every article.
C20_Witness ==
  /\ endpoint = "discover_topic"
  /\ Len(request.sizes) = 2 /\ request.titles[1] # request.titles[2]
  /\ \E k \in 1..2 : request.sizes[k] < Max(2, request.min_cluster_size)
  /\ Len(response.topics) = 1
  /\ response.topics[1].article_count = request.n
  /\ response.total_articles_processed = request.n

\* C21: topic discovery over a non-empty article list never ends in an error
\* response: the endpoint answers 200 with at least one topic, and a run of
\* the service in which a step of the pipeline failed still returns exactly
\* one (fallback) topic.
C21_NeverAnErrorResponse ==
  /\ (endpoint = "discover_topics" /\ request.n > 0) =>
       /\ response.status = 200
       /\ Len(response.topics) >= 1
  /\ (endpoint = "discover_topic" /\ request.fails) =>
       Len(response.topics) = 1

\* C22: when fewer than max(minClusterSize, 2) articles with a present
\* embedding remain, no clustering is performed and the result is exactly one
\* topic titled "General Topic", of relevance 50, whose articleCount is the
\* number of remaining articles.
C22_FallbackWhenTooFew ==
  (/\ endpoint = "discover_topic" /\ request.n > 0 /\ ~request.fails
   /\ request.n - Cardinality(request.absent)
        < Max(request.min_cluster_size, 2)) =>
    /\ request.sizes = <<>>
    /\ Len(response.topics) = 1
    /\ response.topics[1].title = "General Topic"
    /\ response.topics[1].relevance = 50
    /\ response.topics[1].article_count
         = request.n - Cardinality(request.absent)

\* C23: an article whose embedding is still absent after the GET and the POST
\* is dropped before clustering: the clusters hold, and the topics list, at
\* most the articles whose embedding is present.
C23_AbsentDropped ==
  (endpoint = "discover_topic" /\ request.n > 0 /\ ~request.fails) =>
    LET present == request.n - Cardinality(request.absent)
    IN /\ SumSeq(request.sizes) <= present
       /\ SumSeq([k \in 1..Len(response.topics) |-> response.topics[k].listed])
            <= present

\* C24: discover_topic first issues one GET for all article ids; it issues a
\* POST afterwards exactly when a position is still missing (the GET failed
\* or returned an empty entry for it), with the ids and texts of exactly the
\* missing positions in ascending order; the vectors of the reply are placed
\* at those positions, each at the position of its own article; when the GET
\* supplied every embedding there is no POST.
C24_RetrievalOrdered ==
  (endpoint = "discover_topic" /\ request.n > 0) =>
    LET n == request.n
        missing == IF request.get.raised THEN 1..n ELSE request.get.empty
        post == request.post
    IN /\ Len(upstream) = (IF missing = {} THEN 1 ELSE 2)
       /\ upstream[1].method = "GET"
       /\ upstream[1].ids = [i \in 1..n |-> i]
       /\ missing = {} => request.placed = {} /\ request.absent = {}
       /\ missing # {} =>
            LET sent == upstream[2].ids
                txts == upstream[2].texts
            IN /\ upstream[2].method = "POST"
               /\ Len(sent) = Cardinality(missing) /\ Len(txts) = Len(sent)
               /\ {sent[k] : k \in 1..Len(sent)} = missing
               /\ \A j \in 1..Len(sent), k \in 1..Len(sent) : j < k => sent[j] < sent[k]
               /\ \A k \in 1..Len(sent) : txts[k] = sent[k]
               /\ \A pa \in request.placed : pa[1] = pa[2] /\ pa[1] \in missing
               /\ {pa[1] : pa \in request.placed} =
                    IF post.raised THEN {}
                    ELSE {sent[k] : k \in (1..Len(sent)) \ post.unfilled}

\* C24 witness: of three articles the GET had no embedding for the second;
\* the POST carried that article alone and its vector went to position 2.
C24_Witness ==
  /\ endpoint = "discover_topic" /\ request.n = 3
  /\ ~request.get.raised /\ request.get.empty = {2}
  /\ Len(upstream) = 2
  /\ upstream[2].ids = <<2>> /\ upstream[2].texts = <<2>>
  /\ request.placed = {<<2, 2>>} /\ request.absent = {}
  /\ Len(response.topics) = 1

\* C25: the articleCount of every returned topic is the number of articles
\* that belong to it, also after a merge of same-title topics or of small
\* clusters, and its article list is no longer than the cap.
C25_CountIsMembership ==
  endpoint = "discover_topic" =>
    \A k \in 1..Len(response.topics) :
      /\ response.topics[k].article_count = response.topics[k].members
      /\ response.topics[k].listed <= ArticleCap

\* C26: topics that tie on relevance and articleCount come in ascending order
\* of their cluster id.
C26_TiesByClusterId ==
  endpoint = "discover_topic" =>
    \A i \in 1..Len(response.topics), j \in 1..Len(response.topics) :
      (/\ i < j
       /\ response.topics[i].relevance = response.topics[j].relevance
       /\ response.topics[i].article_count = response.topics[j].article_count)
      => response.topics[i].cluster < response.topics[j].cluster

C28_WritesOnlyMissingIds ==
  [][\A c \in Calls :
       (pc[c] = "upsert" /\ pc'[c] = "done") =>
         \A i \in Ids :
           (\/ {r \in store' : r[1] = i} # {r \in store : r[1] = i}
            \/ last_upsert'[i] # last_upsert[i])
           => /\ i \in SetOf(ids[c])
              /\ i \notin DOMAIN cached_map[c]]_vars

\* C28 witness: a finished request of two ids found one in the store and
\* wrote the other; the row it found is still the row an earlier request
\* wrote.
C28_Witness ==
  \E c \in Calls, d \in Calls :
    /\ c # d /\ pc[c] = "done" /\ Len(ids[c]) = 2
    /\ Cardinality(ServedFromStore(c)) = 1
    /\ WrittenBy(c) # {}
    /\ \E k \in ServedFromStore(c) :
         /\ <<ids[c][k], cached_map[c][ids[c][k]]>> \in store
         /\ <<ids[c][k], cached_map[c][ids[c][k]]>> \in WrittenBy(d)
         /\ \A w \in WrittenBy(c) : w[1] # ids[c][k]

\* ------------------------------------------------ properties of the fetcher
\* C29: an arXiv fetch makes at most three calls of the fetcher and never
\* submits one search expression twice.
C29_NoExpressionTwice ==
  (endpoint = "articles" /\ request.source = "arxiv") =>
    /\ Len(upstream) <= 3
    /\ \A i \in 1..Len(upstream), j \in 1..Len(upstream) :
         i # j => upstream[i].query # upstream[j].query

\* C30: every topic built from clusters has an articleCount of at least
\* max(2, minClusterSize), whatever the clustering returned.
C30_NoSmallTopic ==
  (endpoint = "discover_topic" /\ request.sizes # <<>>) =>
    \A k \in 1..Len(response.topics) :
      response.topics[k].article_count >= Max(2, request.min_cluster_size)

====
